---- MODULE Spec2Model ----
(***************************************************************************)
(* Model of src/JangWansik/app.py: a Streamlit script that loads a cached  *)
(* classifier pipeline, derives three features from the widget values,     *)
(* scores them, thresholds the probability and renders the result.         *)
(*                                                                         *)
(* One process serves several browser sessions.  Every script run executes *)
(* app.py top to bottom for one session; the only state shared between     *)
(* runs is the st.cache_resource entry of load_model_pipeline and the      *)
(* artifact file on disk.                                                  *)
(*                                                                         *)
(* Numbers: a derived feature is the exact rational [n, d] that the code's *)
(* float64 expression rounds (d = 0 is a non-finite float: inf or nan);    *)
(* the double the code holds lies within two roundings of it (100 * (1 -   *)
(* 0.9) is 9.999999999999998 in the code and 10 here).  Probabilities are  *)
(* integers in millionths; NaN is the float nan.                           *)
(***************************************************************************)
EXTENDS Integers, Sequences, FiniteSets

VARIABLES
    disk,        \* content of models/spotify_churn_model.pkl
    cache,       \* the st.cache_resource entry of load_model_pipeline
    sess,        \* per session: inputs, locals and output of its last script run
    loadCount,   \* history: calls of joblib.load in this process
    loadFailed,  \* history: some joblib.load of this process failed
    reports      \* history: (failure cause, what the user was shown) pairs

vars == <<disk, cache, sess, loadCount, loadFailed, reports>>

\* ------------------------------------------------------------------ bounds
MaxLoads == 3

Sessions == {"s1", "s2"}

\* ------------------------------------------------------- rational numbers
Abs(x) == IF x < 0 THEN -x ELSE x

Sign(x) == IF x > 0 THEN 1 ELSE IF x < 0 THEN -1 ELSE 0

RECURSIVE GCD(_, _)
GCD(a, b) == IF b = 0 THEN a ELSE GCD(b, a % b)

\* n/d in lowest terms, d > 0
Rat(n, d) == LET g == GCD(Abs(n), d) IN [n |-> n \div g, d |-> d \div g]

FromInt(i) == [n |-> i, d |-> 1]

Finite(a) == a.d # 0

RAdd(a, b) == Rat(a.n * b.d + b.n * a.d, a.d * b.d)

RSub(a, b) == Rat(a.n * b.d - b.n * a.d, a.d * b.d)

RMul(a, b) == Rat(a.n * b.n, a.d * b.d)

\* float division as pandas does it: x/0 is +-inf, 0/0 is nan, never an exception
RDiv(a, b) ==
    IF b.n = 0 THEN [n |-> Sign(a.n), d |-> 0]
    ELSE IF b.n > 0 THEN Rat(a.n * b.d, a.d * b.n)
    ELSE Rat(-(a.n * b.d), a.d * (-b.n))

RLess(a, b) == a.n * b.d < b.n * a.d

\* ------------------------------------------------------------ the widgets
\* st.number_input("...", min_value=0.0, value=60.0, step=5.0)
ListeningTimes == {FromInt(0), FromInt(60)}

\* st.number_input("...", min_value=0, value=20, step=1)
SongsPlayed == {0, 20}

\* st.slider("...", 0.0, 1.0, 0.3, step=0.01)
SkipRates == {Rat(30, 100), Rat(100, 100)}

\* st.number_input("...", min_value=0, value=5, step=1)
AdsListened == {5}

\* the values of all the widgets of one script run
RawProfiles ==
    [age : {30}, gender : {"Male"}, country : {"US"},
     subscription_type : {"Free"}, device_type : {"Mobile"},
     listening_time : ListeningTimes, songs_played : SongsPlayed,
     skip_rate : SkipRates, ads_listened : AdsListened,
     offline_listening : {0}]

\* the widgets' default values
DefaultProfile ==
    [age |-> 30, gender |-> "Male", country |-> "US",
     subscription_type |-> "Free", device_type |-> "Mobile",
     listening_time |-> FromInt(60), songs_played |-> 20,
     skip_rate |-> Rat(30, 100), ads_listened |-> 5,
     offline_listening |-> 0]

\* ------------------------------------------------------------ the artifact
Scale == 1000 * 1000

NaN == -1

threshold == 350000

None == [kind |-> "None", p |-> 0]

\* The artifacts joblib.load can return.  The classifier is a black box to
\* app.py; these are the behaviours its call site can meet: a probability
\* that does not depend on the input, one that does, an exception for a
\* schema mismatch, any other exception, and a nan probability.
Pipelines ==
    {[kind |-> "dummy", p |-> 0], [kind |-> "dummy", p |-> Scale],
     [kind |-> "dummy", p |-> 1500],
     [kind |-> "rule", p |-> 0], [kind |-> "schema", p |-> 0],
     [kind |-> "fail", p |-> 0], [kind |-> "nan", p |-> 0]}

\* no file at the path
Missing == [kind |-> "missing", p |-> 0]

\* a file joblib.load cannot unpickle (truncated, wrong format, ...)
Corrupt == [kind |-> "corrupt", p |-> 0]

DiskContents == {Missing, Corrupt} \cup Pipelines

\* pd.DataFrame({...}) of the handler
InputData(raw) ==
    [age |-> raw.age, gender |-> raw.gender, country |-> raw.country,
     subscription_type |-> raw.subscription_type,
     device_type |-> raw.device_type,
     listening_time |-> raw.listening_time,
     songs_played_per_day |-> raw.songs_played,
     skip_rate |-> raw.skip_rate,
     ads_listened_per_week |-> raw.ads_listened,
     offline_listening |-> raw.offline_listening]

\* mutant: the divisor without its + 1
ad_burden_NoGuard(X) ==
    RDiv(FromInt(X.ads_listened_per_week), X.listening_time)

ad_burden(X) ==
    RDiv(FromInt(X.ads_listened_per_week), RAdd(X.listening_time, FromInt(1)))

\* mutant: weights the plays by the skip rate instead of its complement
satisfaction_score_BySkip(X) ==
    RMul(FromInt(X.songs_played_per_day), X.skip_rate)

satisfaction_score(X) ==
    RMul(FromInt(X.songs_played_per_day), RSub(FromInt(1), X.skip_rate))

time_per_song(X) ==
    RDiv(X.listening_time, FromInt(X.songs_played_per_day + 1))

\* input_data with its three derived columns
FeatureEngineering(X) ==
    [base |-> X, ad_burden |-> ad_burden(X),
     satisfaction_score |-> satisfaction_score(X),
     time_per_song |-> time_per_song(X)]

\* input_data of a run that has not built it
NoData ==
    [base |-> [age |-> 0, gender |-> "", country |-> "",
               subscription_type |-> "", device_type |-> "",
               listening_time |-> FromInt(0), songs_played_per_day |-> 0,
               skip_rate |-> FromInt(0), ads_listened_per_week |-> 0,
               offline_listening |-> 0],
     ad_burden |-> FromInt(0), satisfaction_score |-> FromInt(0),
     time_per_song |-> FromInt(0)]

\* pipeline.predict_proba(input_data)[0, 1]: a value, or an exception.
\* The "rule" classifier splits on two derived columns at points where the
\* double and the exact value fall on the same side for every widget value:
\* 9.995 lies between the attainable satisfaction scores (multiples of 0.01),
\* and a correctly rounded quotient is below 1 exactly when the quotient is.
predict_proba(pipeline, X) ==
    CASE pipeline.kind = "dummy" -> [raised |-> "no", p |-> pipeline.p]
      [] pipeline.kind = "rule" ->
            [raised |-> "no",
             p |-> IF RLess(X.satisfaction_score, Rat(1999, 200))
                      \/ RLess(X.time_per_song, FromInt(1))
                   THEN threshold ELSE threshold - 1]
      [] pipeline.kind = "schema" -> [raised |-> "SchemaMismatch", p |-> 0]
      [] pipeline.kind = "fail" -> [raised |-> "Inference", p |-> 0]
      [] OTHER -> [raised |-> "no", p |-> NaN]

\* ---------------------------------------------------- load_model_pipeline
EmptyCache == [filled |-> FALSE, value |-> None, msgs |-> <<>>]

\* joblib.load inside try/except FileNotFoundError: the value returned, the
\* elements written while computing it, or the exception that escapes
load_body(d) ==
    CASE d = Missing -> [raised |-> FALSE, value |-> None, msgs |-> <<"load_error">>]
      [] d = Corrupt -> [raised |-> TRUE, value |-> None, msgs |-> <<>>]
      [] OTHER -> [raised |-> FALSE, value |-> d, msgs |-> <<>>]

\* @st.cache_resource: a hit returns the stored object and replays the
\* elements stored with it; a miss runs the body under the cache's lock and
\* stores what it returned; an exception is not stored
load_model_pipeline(c, d) ==
    IF c.filled
    THEN [raised |-> FALSE, value |-> c.value, msgs |-> c.msgs,
          loaded |-> FALSE, cache |-> c]
    ELSE LET r == load_body(d) IN
         [raised |-> r.raised, value |-> r.value, msgs |-> r.msgs,
          loaded |-> TRUE,
          cache |-> IF r.raised THEN c
                    ELSE [filled |-> TRUE, value |-> r.value, msgs |-> r.msgs]]

\* ------------------------------------------------------- the button handler
\* mutant: an exclusive comparison
Classify_Strict(p) == IF p # NaN /\ p > threshold THEN 1 ELSE 0

\* prediction = 1 if churn_proba >= threshold else 0 (nan >= x is False)
Classify(p) == IF p # NaN /\ p >= threshold THEN 1 ELSE 0

\* The probabilities j.5 thousandths (j*1000 + 500 millionths) whose double,
\* times 100, lies below the decimal tie (or on it, next to an even digit),
\* so that the format rounds them down to j: 501 of the 1000 in [0, 1].
RoundsDown ==
    {1, 2, 4, 5, 9, 11, 12, 18, 19, 21, 22, 25, 26, 29, 30, 31, 32, 35,
     36, 40, 42, 43, 45, 51, 52, 53, 55, 59, 60, 62, 63, 70, 71, 72, 73,
     74, 75, 76, 78, 82, 83, 86, 88, 89, 90, 92, 93, 94, 98, 102, 103,
     104, 105, 108, 109, 112, 113, 118, 119, 120, 122, 123, 124, 128,
     132, 141, 142, 143, 144, 145, 146, 148, 149, 150, 152, 153, 154,
     158, 162, 164, 172, 173, 174, 175, 176, 178, 179, 181, 182, 184,
     186, 189, 191, 192, 194, 202, 203, 204, 205, 206, 208, 209, 211,
     212, 213, 214, 216, 219, 221, 222, 224, 229, 232, 234, 235, 236,
     238, 239, 241, 242, 243, 244, 246, 249, 251, 252, 254, 259, 262,
     281, 282, 283, 284, 285, 286, 287, 288, 289, 290, 291, 292, 293,
     294, 295, 296, 298, 299, 300, 301, 302, 303, 304, 306, 309, 311,
     312, 314, 316, 319, 320, 321, 322, 326, 331, 332, 342, 344, 345,
     346, 348, 349, 350, 351, 352, 354, 355, 356, 359, 360, 361, 362,
     364, 365, 366, 370, 371, 372, 375, 376, 380, 381, 382, 386, 391,
     392, 396, 402, 406, 408, 409, 410, 411, 412, 413, 414, 415, 416,
     419, 420, 421, 422, 424, 425, 426, 430, 431, 432, 435, 436, 440,
     441, 442, 445, 446, 451, 452, 456, 462, 469, 470, 471, 472, 473,
     474, 475, 476, 479, 480, 481, 482, 484, 485, 486, 489, 490, 491,
     492, 495, 496, 500, 501, 502, 503, 504, 505, 506, 507, 508, 509,
     510, 511, 512, 513, 514, 515, 516, 517, 518, 519, 520, 521, 522,
     523, 524, 525, 526, 528, 529, 530, 531, 532, 533, 534, 535, 536,
     538, 539, 540, 541, 542, 544, 545, 546, 549, 550, 551, 552, 555,
     556, 560, 561, 562, 565, 566, 570, 571, 572, 576, 581, 582, 592,
     602, 625, 626, 627, 628, 629, 630, 631, 632, 633, 634, 635, 636,
     637, 638, 639, 640, 641, 642, 643, 645, 646, 648, 650, 651, 652,
     653, 655, 656, 658, 660, 661, 662, 663, 665, 666, 668, 670, 672,
     673, 675, 678, 680, 682, 683, 685, 688, 690, 692, 693, 695, 698,
     700, 702, 703, 705, 710, 712, 715, 720, 722, 725, 730, 732, 742,
     750, 751, 752, 753, 754, 755, 756, 758, 759, 760, 761, 762, 763,
     764, 765, 766, 768, 770, 771, 772, 773, 775, 776, 778, 780, 781,
     782, 783, 785, 786, 788, 790, 791, 792, 793, 795, 798, 800, 802,
     803, 805, 808, 810, 812, 813, 815, 818, 820, 822, 823, 825, 828,
     830, 832, 835, 840, 842, 845, 850, 852, 855, 862, 872, 875, 876,
     878, 879, 880, 881, 882, 883, 884, 885, 886, 888, 889, 890, 891,
     892, 893, 895, 896, 898, 900, 901, 902, 903, 905, 906, 908, 910,
     911, 912, 913, 915, 916, 918, 920, 922, 923, 925, 928, 930, 932,
     933, 935, 938, 940, 942, 943, 945, 948, 950, 952, 953, 955, 960,
     962, 965, 970, 972, 975, 980, 982, 992}

\* f"{churn_proba*100:.1f}%", in tenths of a percent, for a probability in
\* [0, 1] given in millionths: the correctly rounded decimal of the double
\* churn_proba*100; "nan%" for nan
metric_text(p) ==
    IF p = NaN THEN NaN
    ELSE IF p % 1000 = 500 /\ (p \div 1000) \in RoundsDown THEN p \div 1000
    ELSE (p + 500) \div 1000

\* st.progress accepts a value in [0.0, 1.0] and raises on any other
ProgressOk(p) == p # NaN /\ 0 <= p /\ p <= Scale

\* mutant: the two retention actions in the other order
ActionPlan_Swapped(prediction) ==
    IF prediction = 1
    THEN <<"risk_label", "plan_title", "action_playlist", "action_coupon">>
    ELSE <<"loyal_label", "no_action">>

\* the if/else under the gauge
ActionPlan(prediction) ==
    IF prediction = 1
    THEN <<"risk_label", "plan_title", "action_coupon", "action_playlist">>
    ELSE <<"loyal_label", "no_action">>

\* except Exception as e: st.error(...{e}); st.warning(...)
ExceptHandler(e) == <<"error_generic", "warning_generic">>

\* the body of the try block once predict_proba has returned p
RenderResult(p, prediction) ==
    LET head == <<"header", "metric">> IN
    IF ProgressOk(p)
    THEN [shown |-> head \o <<"progress">> \o ActionPlan(prediction)
                        \o <<"expander">>,
          outcome |-> "result", cause |-> "none"]
    ELSE [shown |-> head \o ExceptHandler("StreamlitAPIException"),
          outcome |-> "error", cause |-> "Render"]

\* a session before its first script run
NewSession ==
    [ran |-> FALSE, button |-> FALSE, click |-> FALSE, raw |-> DefaultProfile,
     pipeline |-> None, invoked |-> FALSE, hasData |-> FALSE,
     input_data |-> NoData, scored |-> FALSE, proba |-> 0, prediction |-> 0,
     metric |-> 0, shown |-> <<>>, outcome |-> "none", cause |-> "none"]

\* lines 87-144: what `if st.button(...)` does when the button was clicked
Handler(base, pipeline, raw) ==
    IF pipeline = None
    THEN [base EXCEPT !.outcome = "stopped", !.cause = "ArtifactLoad"]
    ELSE LET X == FeatureEngineering(InputData(raw))
             r == predict_proba(pipeline, X)
             withData == [base EXCEPT !.hasData = TRUE, !.input_data = X,
                                      !.invoked = TRUE]
         IN IF r.raised # "no"
            THEN [withData EXCEPT !.shown = base.shown \o ExceptHandler(r.raised),
                                  !.outcome = "error", !.cause = r.raised]
            ELSE LET prediction == Classify(r.p)
                     out == RenderResult(r.p, prediction)
                 IN [withData EXCEPT !.scored = TRUE, !.proba = r.p,
                                     !.prediction = prediction,
                                     !.metric = metric_text(r.p),
                                     !.shown = base.shown \o out.shown,
                                     !.outcome = out.outcome,
                                     !.cause = out.cause]

\* one run of app.py for a session: the session's new record
ScriptRun(ld, raw, click) ==
    IF ld.raised
    THEN [NewSession EXCEPT !.ran = TRUE, !.raw = raw, !.click = click,
                            !.shown = <<"exception">>, !.outcome = "crash",
                            !.cause = "ArtifactLoad"]
    ELSE LET base == [NewSession EXCEPT !.ran = TRUE, !.button = TRUE,
                                        !.raw = raw, !.click = click,
                                        !.pipeline = ld.value,
                                        !.shown = ld.msgs \o <<"form">>,
                                        !.outcome = "page"]
         IN IF click THEN Handler(base, ld.value, raw) ELSE base

\* what a failed run reports, message text aside
Report(r) == [shown |-> r.shown, outcome |-> r.outcome]

Failed(r) == r.outcome \in {"stopped", "error", "crash"}

\* the effect of one script run on the process
Run(s, raw, click) ==
    LET ld == load_model_pipeline(cache, disk)
        r == ScriptRun(ld, raw, click)
    IN /\ ld.loaded => loadCount < MaxLoads
       /\ cache' = ld.cache
       /\ sess' = [sess EXCEPT ![s] = r]
       /\ loadCount' = IF ld.loaded THEN loadCount + 1 ELSE loadCount
       /\ loadFailed' = (loadFailed \/ (ld.loaded /\ (ld.raised \/ ld.value = None)))
       /\ reports' = IF Failed(r) /\ r.cause # "Render"
                      THEN reports \cup {[cause |-> r.cause, report |-> Report(r)]}
                      ELSE reports
       /\ UNCHANGED disk

\* ---------------------------------------------------------------- actions
Init ==
    /\ disk \in DiskContents
    /\ cache = EmptyCache
    /\ sess = [s \in Sessions |-> NewSession]
    /\ loadCount = 0
    /\ loadFailed = FALSE
    /\ reports = {}

\* a page load, or a change of a widget the last run rendered (a run that
\* rendered none starts from the widgets' defaults): the script runs and
\* st.button returns False
Rerun(s) ==
    \E raw \in (IF sess[s].button THEN RawProfiles ELSE {DefaultProfile}) :
        Run(s, raw, FALSE)

\* a click on the button the last run rendered: the script runs with the
\* widgets as they are, st.button returns True
PressButton(s) ==
    /\ sess[s].button
    /\ Run(s, sess[s].raw, TRUE)

\* the artifact file is written, replaced or removed by the training job;
\* only a cache miss reads it
DiskChange ==
    /\ ~cache.filled
    /\ \E d \in DiskContents \ {disk} : disk' = d
    /\ UNCHANGED <<cache, sess, loadCount, loadFailed, reports>>

\* the server process is restarted: a new process with an empty cache
Restart ==
    /\ cache.filled \/ loadCount > 0
    /\ cache' = EmptyCache
    /\ sess' = [s \in Sessions |-> NewSession]
    /\ loadCount' = 0
    /\ loadFailed' = FALSE
    /\ UNCHANGED <<disk, reports>>

Next ==
    \/ \E s \in Sessions : Rerun(s)
    \/ \E s \in Sessions : PressButton(s)
    \/ DiskChange
    \/ Restart

Spec == Init /\ [][Next]_vars

\* ------------------------------------------------------------- properties
Elems(q) == {q[i] : i \in DOMAIN q}

ResultElems ==
    {"metric", "progress", "risk_label", "plan_title", "action_coupon",
     "action_playlist", "loyal_label", "no_action"}

LabelOrAction == ResultElems \ {"metric", "progress"}

IsAction(e) == e \in {"action_coupon", "action_playlist", "no_action"}

IsLabel(e) == e \in {"risk_label", "loyal_label"}

\* C1: the derived columns of every request are ads / (listening_time + 1),
\* songs * (1 - skip_rate) and listening_time / (songs + 1), stated by
\* multiplying back; the default inputs 60, 20, 0.3, 5 give 5/61, 14, 60/21.
C1_DerivedFeatures ==
    \A s \in Sessions : sess[s].hasData =>
        LET X == sess[s].input_data
            r == sess[s].raw
        IN /\ Finite(X.ad_burden) /\ Finite(X.time_per_song)
           /\ RMul(X.ad_burden, RAdd(r.listening_time, FromInt(1)))
                  = FromInt(r.ads_listened)
           /\ RAdd(X.satisfaction_score, RMul(FromInt(r.songs_played), r.skip_rate))
                  = FromInt(r.songs_played)
           /\ RMul(X.time_per_song, FromInt(r.songs_played + 1)) = r.listening_time
           /\ (r = DefaultProfile =>
                  /\ X.ad_burden = [n |-> 5, d |-> 61]
                  /\ X.satisfaction_score = [n |-> 14, d |-> 1]
                  /\ X.time_per_song = [n |-> 20, d |-> 7])

C1_Witness ==
    \E s \in Sessions :
        /\ sess[s].hasData /\ sess[s].raw = DefaultProfile
        /\ sess[s].input_data.ad_burden = [n |-> 5, d |-> 61]

\* C2: a scored request is classified as risk exactly when its probability
\* is at least 0.35: 0.35 itself is risk, 0.349999 is not, and the label
\* rendered is the one of that class.
C2_ThresholdInclusive ==
    \A s \in Sessions : sess[s].scored =>
        LET p == sess[s].proba
            atLeast == p # NaN /\ p >= 350000
        IN /\ (sess[s].prediction = 1) <=> atLeast
           /\ sess[s].prediction \in {0, 1}
           /\ (p = 350000 => sess[s].prediction = 1)
           /\ (p = 349999 => sess[s].prediction = 0)
           /\ (sess[s].outcome = "result" =>
                  /\ ("risk_label" \in Elems(sess[s].shown)) <=> atLeast
                  /\ ("loyal_label" \in Elems(sess[s].shown)) <=> ~atLeast)

C2_Witness ==
    \E s1, s2 \in Sessions :
        /\ sess[s1].scored /\ sess[s1].proba = 350000 /\ sess[s1].prediction = 1
        /\ "risk_label" \in Elems(sess[s1].shown)
        /\ sess[s2].scored /\ sess[s2].proba = 349999 /\ sess[s2].prediction = 0
        /\ "loyal_label" \in Elems(sess[s2].shown)

\* C3 (as claimed): once a load of the artifact has failed in this process,
\* no request invokes the classifier and none renders any part of a result.
C3_NoResultAfterLoadFailure ==
    loadFailed =>
        \A s \in Sessions :
            /\ ~sess[s].invoked
            /\ Elems(sess[s].shown) \cap ResultElems = {}

\* C4 (as claimed): a request that shows the error of the except branch
\* shows no part of a result with it.
C4_NoPartialResultOnError ==
    \A s \in Sessions :
        "error_generic" \in Elems(sess[s].shown) =>
            Elems(sess[s].shown) \cap ResultElems = {}

\* C5 (as claimed): failures of different kinds are reported differently,
\* message text aside.
C5_DistinctErrorKinds ==
    \A r1, r2 \in reports : r1.cause # r2.cause => r1.report # r2.report

\* C6 (as claimed): the artifact is loaded at most once per process, and
\* exactly once as soon as a script run has used it.
C6_LoadedExactlyOnce ==
    /\ loadCount <= 1
    /\ ((\E s \in Sessions : sess[s].ran) => loadCount = 1)

\* C7 (as claimed): whenever predict_proba has returned a probability, the
\* request shows the probability gauge (the probability to the displayed
\* tenth of a percent), a risk or loyal label and an action; and a label or
\* an action is never shown without the gauge before it.
C7_PopulatedWhenScored ==
    \A s \in Sessions :
        LET q == sess[s].shown IN
        /\ \A i \in DOMAIN q :
              q[i] \in LabelOrAction => \E j \in 1..(i - 1) : q[j] = "metric"
        /\ (sess[s].scored =>
              /\ "metric" \in Elems(q)
              /\ sess[s].metric = metric_text(sess[s].proba)
              /\ \E i \in DOMAIN q : IsLabel(q[i])
              /\ \E i \in DOMAIN q : IsAction(q[i]))

\* C8: with listening_time >= 0 and songs >= 0 both divisors are at least 1
\* and the three derived columns are finite; with listening_time = 0 and
\* songs = 0, ad_burden is the number of ads and time_per_song is 0.
C8_NoDivisionByZero ==
    \A s \in Sessions : sess[s].hasData =>
        LET X == sess[s].input_data
            r == sess[s].raw
        IN (r.listening_time.n >= 0 /\ r.songs_played >= 0) =>
              /\ ~RLess(RAdd(r.listening_time, FromInt(1)), FromInt(1))
              /\ r.songs_played + 1 >= 1
              /\ Finite(X.ad_burden)
              /\ Finite(X.satisfaction_score)
              /\ Finite(X.time_per_song)
              /\ (r.listening_time = FromInt(0) /\ r.songs_played = 0 =>
                     /\ X.ad_burden = FromInt(r.ads_listened)
                     /\ X.time_per_song = FromInt(0))

C8_Witness ==
    \E s \in Sessions :
        /\ sess[s].hasData
        /\ sess[s].raw.listening_time = FromInt(0)
        /\ sess[s].raw.songs_played = 0
        /\ sess[s].input_data.ad_burden = FromInt(5)
        /\ sess[s].input_data.time_per_song = FromInt(0)

\* C10: a completed risk request shows exactly the coupon action and then
\* the playlist action, with the risk label; a completed non-risk request
\* shows exactly the no-action note, with the loyal label.
C10_ActionLookup ==
    \A s \in Sessions : sess[s].outcome = "result" =>
        LET q == sess[s].shown IN
        /\ (sess[s].prediction = 1 =>
              /\ SelectSeq(q, IsAction) = <<"action_coupon", "action_playlist">>
              /\ SelectSeq(q, IsLabel) = <<"risk_label">>)
        /\ (sess[s].prediction # 1 =>
              /\ SelectSeq(q, IsAction) = <<"no_action">>
              /\ SelectSeq(q, IsLabel) = <<"loyal_label">>)

C10_Witness ==
    \E s1, s2 \in Sessions :
        /\ sess[s1].outcome = "result" /\ sess[s1].prediction = 1
        /\ SelectSeq(sess[s1].shown, IsAction) = <<"action_coupon", "action_playlist">>
        /\ sess[s2].outcome = "result" /\ sess[s2].prediction = 0
        /\ SelectSeq(sess[s2].shown, IsAction) = <<"no_action">>
====
